---- MODULE Spec2Model ----
(***************************************************************************)
(* Workout log service (src/index.js): six HTTP handlers over the single   *)
(* table public.workout_logs.  Each handler is one step: it extracts the   *)
(* request fields, issues at most one parameterised statement against the  *)
(* store and sends one response.  JavaScript values, the store's column    *)
(* types and the statements' results are modelled as the code and the      *)
(* schema define them.                                                     *)
(***************************************************************************)
EXTENDS Integers, Sequences, FiniteSets, TLC

VARIABLES rows, nextId, clock, deleted, req, res, logged

vars == <<rows, nextId, clock, deleted, req, res, logged>>

(***************************************************************************)
(* Bounds of the model.                                                    *)
(***************************************************************************)
\* ids the sequence may hand out under Spec, SpecCore and SpecFail
MaxId == 2
\* ids the sequence may hand out under SpecQuery
MaxIdQuery == 3

(***************************************************************************)
(* JavaScript values of a request body.  A number n is kept in thousandths *)
(* (Num(1005) is 1.005) so that decimals stay integral.                    *)
(***************************************************************************)
Undef == [t |-> "undefined", s |-> "", n |-> 0]

Null == [t |-> "null", s |-> "", n |-> 0]

Str(x) == [t |-> "string", s |-> x, n |-> 0]

Num(x) == [t |-> "number", s |-> "", n |-> x]

\* !v
Falsy(v) ==
  \/ v.t \in {"undefined", "null"}
  \/ v.t = "string" /\ v.s = ""
  \/ v.t = "number" /\ v.n = 0

\* v || null: a falsy value becomes null
OrNullFalsy(v) == IF Falsy(v) THEN Null ELSE v

\* v ?? null
OrNull(v) == IF v.t \in {"undefined", "null"} THEN Null ELSE v

\* const { date, exercise, weight_kg, reps, note } = req.body || {}
EmptyBody ==
  [date |-> Undef, exercise |-> Undef, weight_kg |-> Undef, reps |-> Undef, note |-> Undef]

(***************************************************************************)
(* SQL values: <<>> is NULL, <<x>> is the value x.  A DATE is a day        *)
(* number, NUMERIC(5,2) a count of hundredths, INT an integer, TEXT a      *)
(* string.                                                                 *)
(***************************************************************************)
NULL == <<>>

Some(x) == <<x>>

\* the date literals the model submits, in calendar order
ValidDates == <<"2024-01-01", "2024-01-02">>

\* the collation order of the exercise names the model uses
TextOrder == <<"", "Bench", "Squat", "squat">>

TextRank(s) == CHOOSE i \in 1..Len(TextOrder) : TextOrder[i] = s

\* a parameter the driver sends as NULL: null or undefined
SqlNull(v) == v.t \in {"null", "undefined"}

\* input conversion of a parameter bound to a DATE column: a literal that is
\* no date (the empty string) is rejected
DateIn(v) ==
  IF SqlNull(v) THEN [ok |-> TRUE, val |-> NULL]
  ELSE IF v.t = "string" /\ \E i \in 1..Len(ValidDates) : ValidDates[i] = v.s
    THEN [ok |-> TRUE, val |-> Some(CHOOSE i \in 1..Len(ValidDates) : ValidDates[i] = v.s)]
  ELSE [ok |-> FALSE, val |-> NULL]

\* input conversion of a parameter bound to a TEXT column; every string,
\* the empty one included, is a TEXT value
TextIn(v) ==
  CASE SqlNull(v) -> [ok |-> TRUE, val |-> NULL]
    [] v.t = "string" -> [ok |-> TRUE, val |-> Some(v.s)]

\* input conversion of a parameter bound to a NUMERIC column: the value in
\* thousandths, not yet rounded to the column's scale
NumericIn(v) ==
  CASE SqlNull(v) -> [ok |-> TRUE, val |-> NULL]
    [] v.t = "number" -> [ok |-> TRUE, val |-> Some(v.n)]
    [] v.t = "string" /\ v.s = "" -> [ok |-> FALSE, val |-> NULL]

\* input conversion of a parameter bound to an INT column
Int4In(v) ==
  CASE SqlNull(v) -> [ok |-> TRUE, val |-> NULL]
    [] v.t = "number" /\ v.n % 1000 = 0 -> [ok |-> TRUE, val |-> Some(v.n \div 1000)]
    [] v.t = "number" /\ v.n % 1000 # 0 -> [ok |-> FALSE, val |-> NULL]
    [] v.t = "string" /\ v.s = "" -> [ok |-> FALSE, val |-> NULL]

\* the largest value NUMERIC(5,2) holds, in hundredths (999.99)
NumericMax == 99999

\* a numeric value (thousandths) rounded half away from zero to two
\* fractional digits (hundredths)
Round2(m) == IF m >= 0 THEN (m + 5) \div 10 ELSE 0 - ((5 - m) \div 10)

\* assignment of a parameter to weight_kg NUMERIC(5,2): rounded to the
\* column's scale; more than three integer digits is an error
NumericScale(x) ==
  IF x = NULL THEN [ok |-> TRUE, val |-> NULL]
  ELSE [ok |-> Round2(x[1]) <= NumericMax /\ Round2(x[1]) >= 0 - NumericMax,
        val |-> Some(Round2(x[1]))]

\* the store's error messages
ErrDate == "invalid input syntax for type date"

ErrNumeric == "invalid input syntax for type numeric"

ErrInt == "invalid input syntax for type integer"

ErrOverflow == "numeric field overflow"

ErrNotNull == "null value violates not-null constraint"

ErrDown == "connection terminated unexpectedly"

\* the handlers' own error messages
ErrRequired == "date & exercise are required"

ErrNotFound == "not found"

\* binding the five column parameters: the first conversion that fails
\* aborts the statement before it runs
Bind(p) ==
  LET d == DateIn(p.date)
      e == TextIn(p.exercise)
      w == NumericIn(p.weight_kg)
      r == Int4In(p.reps)
      n == TextIn(p.note)
  IN  [ok |-> d.ok /\ e.ok /\ w.ok /\ r.ok /\ n.ok,
       message |-> IF ~d.ok THEN ErrDate
                   ELSE IF ~w.ok THEN ErrNumeric
                   ELSE IF ~r.ok THEN ErrInt
                   ELSE "",
       date |-> d.val, exercise |-> e.val, weight_kg |-> w.val,
       reps |-> r.val, note |-> n.val]

\* the parameter lists the handlers build
CreateParams(b) ==
  [date |-> b.date, exercise |-> b.exercise, weight_kg |-> OrNull(b.weight_kg),
   reps |-> OrNull(b.reps), note |-> OrNull(b.note)]

UpdateParams(b) ==
  [date |-> OrNull(b.date), exercise |-> OrNull(b.exercise),
   weight_kg |-> OrNull(b.weight_kg), reps |-> OrNull(b.reps), note |-> OrNull(b.note)]

\* !date && !exercise: one of the two is enough
InvalidBoth(b) == Falsy(b.date) /\ Falsy(b.exercise)

\* !date || !exercise
Invalid(b) == Falsy(b.date) \/ Falsy(b.exercise)

\* col = param: a null parameter clears the column
CoalesceParam(x, y) == x

\* COALESCE(param, column)
Coalesce(x, y) == IF x # NULL THEN x ELSE y

(***************************************************************************)
(* The table and the queries.                                              *)
(***************************************************************************)
Ids == {r.id : r \in rows}

RowOf(T, id) == CHOOSE r \in T : r.id = id

\* ORDER BY: the rows of T as a sequence under the strict total order
\* before, a row standing after as many rows as come before it
OrderBy(T, before) ==
  [i \in 1..Cardinality(T) |->
     CHOOSE r \in T : Cardinality({o \in T : before[<<o, r>>]}) = i - 1]

\* ORDER BY date DESC, id ASC
ByDateIdAsc(a, b) ==
  \/ a.date[1] > b.date[1]
  \/ a.date[1] = b.date[1] /\ a.id < b.id

\* ORDER BY date DESC, id DESC
ByDateId(a, b) ==
  \/ a.date[1] > b.date[1]
  \/ a.date[1] = b.date[1] /\ a.id > b.id

\* ORDER BY weight_kg DESC, date DESC, id DESC
ByWeight(a, b) ==
  \/ a.weight_kg[1] > b.weight_kg[1]
  \/ a.weight_kg[1] = b.weight_kg[1] /\ a.date[1] > b.date[1]
  \/ a.weight_kg[1] = b.weight_kg[1] /\ a.date[1] = b.date[1] /\ a.id > b.id

\* ORDER BY exercise, date DESC, id DESC: the weight is left out
ByExerciseDate(a, b) ==
  \/ TextRank(a.exercise[1]) < TextRank(b.exercise[1])
  \/ a.exercise = b.exercise /\ ByDateId(a, b)

\* ORDER BY exercise, weight_kg DESC, date DESC, id DESC
ByExerciseWeight(a, b) ==
  \/ TextRank(a.exercise[1]) < TextRank(b.exercise[1])
  \/ a.exercise = b.exercise /\ ByWeight(a, b)

\* SELECT ... FROM workout_logs ORDER BY date DESC, id DESC
SelectAll(T) == OrderBy(T, [p \in T \X T |-> ByDateId(p[1], p[2])])

\* the same SELECT without exercise = $1
SelectHistoryAll(T, name) ==
  LET W == {r \in T : r.weight_kg # NULL}
  IN  OrderBy(W, [p \in W \X W |-> ByWeight(p[1], p[2])])

\* SELECT ... WHERE exercise = $1 AND weight_kg IS NOT NULL ORDER BY ...
SelectHistory(T, name) ==
  LET W == {r \in T : r.exercise = Some(name) /\ r.weight_kg # NULL}
  IN  OrderBy(W, [p \in W \X W |-> ByWeight(p[1], p[2])])

\* DISTINCT ON (exercise): of a sorted result, the first row of each exercise
RECURSIVE DistinctOn(_)
DistinctOn(s) ==
  IF Len(s) <= 1 THEN s
  ELSE LET front == DistinctOn(SubSeq(s, 1, Len(s) - 1))
       IN  IF s[Len(s)].exercise = s[Len(s) - 1].exercise THEN front
           ELSE Append(front, s[Len(s)])

\* SELECT DISTINCT ON (exercise) ... WHERE weight_kg IS NOT NULL ORDER BY ...
SelectBests(T) ==
  LET W == {r \in T : r.weight_kg # NULL}
  IN  DistinctOn(OrderBy(W, [p \in W \X W |-> ByExerciseWeight(p[1], p[2])]))

(***************************************************************************)
(* Requests and responses.                                                 *)
(***************************************************************************)
Request(op, id, name, body) == [op |-> op, id |-> id, name |-> name, body |-> body]

\* res.status(s).json(...): calls counts the statements the handler issued
Response(status, calls, body, error) ==
  [status |-> status, calls |-> calls, body |-> body, error |-> error]

NoRequest == Request("none", 0, "", EmptyBody)

NoResponse == Response(0, 0, <<>>, "")

\* a catch block that answers with a fixed text instead of e.message
CaughtHidden(message) ==
  /\ logged' = message
  /\ res' = Response(500, 1, <<>>, "internal error")

\* catch (e) { console.error(e); res.status(500).json({ error: e.message }) }
Caught(message) ==
  /\ logged' = message
  /\ res' = Response(500, 1, <<>>, message)

\* a response sent outside the catch block
Send(r) ==
  /\ logged' = ""
  /\ res' = r

Init ==
  /\ rows = {}
  /\ nextId = 1
  /\ clock = 1
  /\ deleted = {}
  /\ req = NoRequest
  /\ res = NoResponse
  /\ logged = ""

\* no request is being handled
Idle == req.op = "none"

\* a row whose id is the smallest unused one instead of the sequence's next
InsertedReuse(p) ==
  [id |-> CHOOSE i \in 1..(Cardinality(rows) + 1) : i \notin Ids,
   date |-> p.date, exercise |-> p.exercise,
   weight_kg |-> NumericScale(p.weight_kg).val, reps |-> p.reps, note |-> p.note,
   created_at |-> clock]

\* the row INSERT ... VALUES ($1,$2,$3,$4,$5) builds: id from the sequence,
\* created_at from the clock
Inserted(p) ==
  [id |-> nextId, date |-> p.date, exercise |-> p.exercise,
   weight_kg |-> NumericScale(p.weight_kg).val, reps |-> p.reps, note |-> p.note,
   created_at |-> clock]

\* POST /api/workouts
Create(b, down) ==
  /\ Idle
  /\ req' = Request("create", 0, "", b)
  /\ IF Invalid(b)
     THEN /\ Send(Response(400, 0, <<>>, ErrRequired))
          /\ UNCHANGED <<rows, nextId, clock, deleted>>
     ELSE LET p == Bind(CreateParams(b))
          IN  IF down
              THEN /\ Caught(ErrDown)
                   /\ UNCHANGED <<rows, nextId, clock, deleted>>
              ELSE IF ~p.ok
              THEN /\ Caught(p.message)
                   /\ UNCHANGED <<rows, nextId, clock, deleted>>
              ELSE IF p.date = NULL \/ p.exercise = NULL
              THEN \* date DATE NOT NULL, exercise TEXT NOT NULL
                   /\ Caught(ErrNotNull)
                   /\ nextId' \in {nextId, nextId + 1}
                   /\ UNCHANGED <<rows, clock, deleted>>
              ELSE IF ~NumericScale(p.weight_kg).ok
              THEN \* the row's id may already have been drawn from the sequence
                   /\ Caught(ErrOverflow)
                   /\ nextId' \in {nextId, nextId + 1}
                   /\ UNCHANGED <<rows, clock, deleted>>
              ELSE /\ rows' = rows \cup {Inserted(p)}
                   /\ nextId' = nextId + 1
                   /\ clock' = clock + 1
                   /\ Send(Response(201, 1, <<Inserted(p)>>, ""))
                   /\ UNCHANGED deleted

\* GET /api/workouts
ReadAll(down) ==
  /\ Idle
  /\ req' = Request("readAll", 0, "", EmptyBody)
  /\ IF down THEN Caught(ErrDown) ELSE Send(Response(200, 1, SelectAll(rows), ""))
  /\ UNCHANGED <<rows, nextId, clock, deleted>>

\* an update that also stamps created_at
UpdatedTouch(r, p) ==
  [id |-> r.id,
   date |-> Coalesce(p.date, r.date),
   exercise |-> Coalesce(p.exercise, r.exercise),
   weight_kg |-> Coalesce(NumericScale(p.weight_kg).val, r.weight_kg),
   reps |-> Coalesce(p.reps, r.reps),
   note |-> Coalesce(p.note, r.note),
   created_at |-> clock]

\* one row after UPDATE ... SET col = COALESCE(param, col): a weight_kg
\* parameter is rounded to the column's scale on assignment
Updated(r, p) ==
  [id |-> r.id,
   date |-> Coalesce(p.date, r.date),
   exercise |-> Coalesce(p.exercise, r.exercise),
   weight_kg |-> Coalesce(NumericScale(p.weight_kg).val, r.weight_kg),
   reps |-> Coalesce(p.reps, r.reps),
   note |-> Coalesce(p.note, r.note),
   created_at |-> r.created_at]

\* PUT /api/workouts/:id
Update(id, b, down) ==
  /\ Idle
  /\ req' = Request("update", id, "", b)
  /\ UNCHANGED <<nextId, clock, deleted>>
  /\ LET p == Bind(UpdateParams(b))
         hit == {r \in rows : r.id = id}
     IN  IF down
         THEN /\ Caught(ErrDown)
              /\ rows' = rows
         ELSE IF ~p.ok
         THEN /\ Caught(p.message)
              /\ rows' = rows
         ELSE IF hit # {} /\ ~NumericScale(p.weight_kg).ok
         THEN \* the assignment fails on the row it is evaluated for
              /\ Caught(ErrOverflow)
              /\ rows' = rows
         ELSE IF hit = {}
         THEN /\ Send(Response(404, 1, <<>>, ErrNotFound))
              /\ rows' = rows
         ELSE /\ rows' = (rows \ hit) \cup {Updated(r, p) : r \in hit}
              /\ Send(Response(200, 1, <<Updated(RowOf(rows, id), p)>>, ""))

\* DELETE /api/workouts/:id
Delete(id, down) ==
  /\ Idle
  /\ req' = Request("delete", id, "", EmptyBody)
  /\ UNCHANGED <<nextId, clock>>
  /\ LET hit == {r \in rows : r.id = id}
     IN  IF down
         THEN /\ Caught(ErrDown)
              /\ UNCHANGED <<rows, deleted>>
         ELSE IF hit = {}
         THEN /\ Send(Response(404, 1, <<>>, ErrNotFound))
              /\ UNCHANGED <<rows, deleted>>
         ELSE /\ rows' = rows \ hit
              /\ deleted' = deleted \cup {id}
              /\ Send(Response(200, 1, <<>>, ""))

\* GET /api/bests
Bests(down) ==
  /\ Idle
  /\ req' = Request("bests", 0, "", EmptyBody)
  /\ IF down THEN Caught(ErrDown) ELSE Send(Response(200, 1, SelectBests(rows), ""))
  /\ UNCHANGED <<rows, nextId, clock, deleted>>

\* GET /api/bests/:exercise
History(name, down) ==
  /\ Idle
  /\ req' = Request("history", 0, name, EmptyBody)
  /\ IF down THEN Caught(ErrDown)
     ELSE Send(Response(200, 1, SelectHistory(rows, name), ""))
  /\ UNCHANGED <<rows, nextId, clock, deleted>>

\* the response is sent: the handler returns and its req and res are released
Finish ==
  /\ ~Idle
  /\ req' = NoRequest
  /\ res' = NoResponse
  /\ logged' = ""
  /\ UNCHANGED <<rows, nextId, clock, deleted>>

(***************************************************************************)
(* The requests each specification submits.                                *)
(***************************************************************************)
BodiesOf(D, E, W, R, N) ==
  {[date |-> d, exercise |-> e, weight_kg |-> w, reps |-> r, note |-> n] :
     d \in D, e \in E, w \in W, r \in R, n \in N}

\* Spec: every field varies; 1.005 rounds to 1.01 and 999.995 rounds out of
\* NUMERIC(5,2)
Bodies ==
  BodiesOf({Undef, Str(""), Str("2024-01-01"), Str("2024-01-02")},
           {Undef, Str(""), Str("Squat")},
           {Undef, Null, Num(1005), Num(999995)},
           {Undef, Num(0)},
           {Undef, Str("")})

Names == {"Squat", "Bench"}

\* SpecCore, SpecFail: the required fields and one optional field
CoreBodies ==
  BodiesOf({Undef, Str(""), Str("2024-01-01"), Str("2024-01-02")},
           {Undef, Str(""), Str("Squat")},
           {Undef, Num(1005), Num(999995)},
           {Undef},
           {Undef})

\* SpecQuery: the fields the queries order and group by
QueryBodies ==
  BodiesOf({Undef, Str("2024-01-01"), Str("2024-01-02")},
           {Undef, Str("Squat"), Str("squat")},
           {Undef, Num(1000), Num(2000)},
           {Undef},
           {Undef})

QueryNames == {"Squat", "squat", "Bench"}

Step(B, N, cap, D) ==
  \/ \E b \in B, down \in D : nextId <= cap /\ Create(b, down)
  \/ \E down \in D : ReadAll(down)
  \/ \E id \in 1..cap, b \in B, down \in D : Update(id, b, down)
  \/ \E id \in 1..cap, down \in D : Delete(id, down)
  \/ \E down \in D : Bests(down)
  \/ \E name \in N, down \in D : History(name, down)
  \/ Finish

\* the store answers every statement
Next == Step(Bodies, Names, MaxId, {FALSE})

Spec == Init /\ [][Next]_vars

\* the same over the smaller bodies
NextCore == Step(CoreBodies, Names, MaxId, {FALSE})

SpecCore == Init /\ [][NextCore]_vars

\* the store may fail any statement
NextFail == Step(CoreBodies, Names, MaxId, BOOLEAN)

SpecFail == Init /\ [][NextFail]_vars

NextQuery == Step(QueryBodies, QueryNames, MaxIdQuery, {FALSE})

SpecQuery == Init /\ [][NextQuery]_vars

(***************************************************************************)
(* Vocabulary of the properties.                                           *)
(***************************************************************************)
Elems(s) == {s[i] : i \in 1..Len(s)}

IdsOf(s) == {s[i].id : i \in 1..Len(s)}

\* the field is named by the body: neither absent nor null
Present(v) == v.t \notin {"undefined", "null"}

\* the stored column denotes exactly the submitted value
IsDate(col, v) == col # NULL /\ v.t = "string" /\ ValidDates[col[1]] = v.s

IsText(col, v) == v.t = "string" /\ col = Some(v.s)

IsNumeric(col, v) == col # NULL /\ v.t = "number" /\ col[1] * 10 = v.n

IsInt(col, v) == col # NULL /\ v.t = "number" /\ col[1] * 1000 = v.n

\* the stored column is the submitted number rounded to two decimals
IsRounded(col, v) == col # NULL /\ v.t = "number" /\ (col[1] * 10 - v.n) \in -4..5

\* the row carries the submitted body, an absent or null optional field as NULL
Carries(r, b) ==
  /\ IsDate(r.date, b.date)
  /\ IsText(r.exercise, b.exercise)
  /\ IF Present(b.weight_kg) THEN IsNumeric(r.weight_kg, b.weight_kg) ELSE r.weight_kg = NULL
  /\ IF Present(b.reps) THEN IsInt(r.reps, b.reps) ELSE r.reps = NULL
  /\ IF Present(b.note) THEN IsText(r.note, b.note) ELSE r.note = NULL

\* the same, with weight_kg rounded to the column's two decimals
CarriesRounded(r, b) ==
  /\ IsDate(r.date, b.date)
  /\ IsText(r.exercise, b.exercise)
  /\ IF Present(b.weight_kg) THEN IsRounded(r.weight_kg, b.weight_kg) ELSE r.weight_kg = NULL
  /\ IF Present(b.reps) THEN IsInt(r.reps, b.reps) ELSE r.reps = NULL
  /\ IF Present(b.note) THEN IsText(r.note, b.note) ELSE r.note = NULL

\* every exercise name a read can be asked for
AllNames == {TextOrder[i] : i \in 1..Len(TextOrder)}

Reads == {"readAll", "bests", "history"}

(***************************************************************************)
(* C1                                                                      *)
(***************************************************************************)
\* C1: a create whose date or exercise is missing or falsy is answered 400
\* without a store call and leaves the rows unchanged; a create with both
\* that the store accepts is answered 201, adds exactly one row, and returns
\* it with an id no existing row has and a created_at value.
C1_CreateContract ==
  [][req'.op = "create" =>
      LET b == req'.body
      IN  /\ (Falsy(b.date) \/ Falsy(b.exercise)) =>
               /\ res'.status = 400
               /\ res'.calls = 0
               /\ rows' = rows
          /\ (~Falsy(b.date) /\ ~Falsy(b.exercise) /\ res'.status # 500) =>
               /\ res'.status = 201
               /\ Len(res'.body) = 1
               /\ res'.body[1].id \notin Ids
               /\ res'.body[1].created_at \in 1..clock
               /\ rows' = rows \cup {res'.body[1]}
               /\ Cardinality(rows') = Cardinality(rows) + 1]_vars

\* the second row is created
C1_Witness ==
  /\ req.op = "create"
  /\ res.status = 201
  /\ Cardinality(rows) = 2
  /\ res.body[1].id = 2

(***************************************************************************)
(* C2                                                                      *)
(***************************************************************************)
\* C2 as stated: an update of an existing id gives every field the body
\* names exactly the submitted value and keeps every other field, the row's
\* id and created_at and all other rows; an update of an id that matches no
\* row is answered 404 and changes no row.
C2_AsStated ==
  [][req'.op = "update" =>
      LET id == req'.id
          b == req'.body
      IN  IF id \in Ids
          THEN /\ id \in {r.id : r \in rows'}
               /\ LET old == RowOf(rows, id)
                      new == RowOf(rows', id)
                  IN  /\ new.id = old.id
                      /\ new.created_at = old.created_at
                      /\ IF Present(b.date) THEN IsDate(new.date, b.date)
                         ELSE new.date = old.date
                      /\ IF Present(b.exercise) THEN IsText(new.exercise, b.exercise)
                         ELSE new.exercise = old.exercise
                      /\ IF Present(b.weight_kg) THEN IsNumeric(new.weight_kg, b.weight_kg)
                         ELSE new.weight_kg = old.weight_kg
                      /\ IF Present(b.reps) THEN IsInt(new.reps, b.reps)
                         ELSE new.reps = old.reps
                      /\ IF Present(b.note) THEN IsText(new.note, b.note)
                         ELSE new.note = old.note
               /\ {r \in rows' : r.id # id} = {r \in rows : r.id # id}
          ELSE /\ res'.status = 404
               /\ rows' = rows]_vars

\* C2 (amended): an update the store accepts for an existing id (200) gives
\* every field the body names the submitted value converted to its column
\* (weight_kg rounded to two decimals) and keeps every other field, the row's
\* id and created_at and all other rows; an update the store rejects (500)
\* changes no row; an update of an id that matches no row is answered 404, or
\* 500 when the store rejects it, and changes no row.
C2_UpdateNamesOnly ==
  [][req'.op = "update" =>
      LET id == req'.id
          b == req'.body
      IN  /\ res'.status \in {200, 404, 500}
          /\ res'.status = 500 => res'.error = logged' /\ logged' # ""
          /\ res'.status # 200 => rows' = rows
          /\ id \in Ids => res'.status # 404
          /\ id \notin Ids => res'.status # 200
          /\ res'.status = 200 =>
               /\ id \in {r.id : r \in rows'}
               /\ LET old == RowOf(rows, id)
                      new == RowOf(rows', id)
                  IN  /\ new.id = old.id
                      /\ new.created_at = old.created_at
                      /\ IF Present(b.date) THEN IsDate(new.date, b.date)
                         ELSE new.date = old.date
                      /\ IF Present(b.exercise) THEN IsText(new.exercise, b.exercise)
                         ELSE new.exercise = old.exercise
                      /\ IF Present(b.weight_kg) THEN IsRounded(new.weight_kg, b.weight_kg)
                         ELSE new.weight_kg = old.weight_kg
                      /\ IF Present(b.reps) THEN IsInt(new.reps, b.reps)
                         ELSE new.reps = old.reps
                      /\ IF Present(b.note) THEN IsText(new.note, b.note)
                         ELSE new.note = old.note
                      /\ res'.body = <<new>>
               /\ {r \in rows' : r.id # id} = {r \in rows : r.id # id}]_vars

\* only reps is named, for a row whose other fields are all set, beside
\* another row
C2_Witness ==
  /\ req.op = "update"
  /\ res.status = 200
  /\ Cardinality(rows) = 2
  /\ Present(req.body.reps)
  /\ ~Present(req.body.date) /\ ~Present(req.body.exercise)
  /\ ~Present(req.body.weight_kg) /\ ~Present(req.body.note)
  /\ res.body[1].weight_kg # NULL
  /\ res.body[1].note # NULL

(***************************************************************************)
(* C3                                                                      *)
(***************************************************************************)
\* no read returns a deleted id
DeletedUnread ==
  /\ \A n \in AllNames :
       deleted \cap (IdsOf(SelectAll(rows)) \cup IdsOf(SelectBests(rows))
                       \cup IdsOf(SelectHistory(rows, n))) = {}
  /\ req.op \in Reads => deleted \cap IdsOf(res.body) = {}

\* the delete of an existing id is answered 200 and removes exactly that row
DeleteRemoves ==
  (req'.op = "delete" /\ req'.id \in Ids) =>
     /\ res'.status = 200
     /\ rows' = rows \ {RowOf(rows, req'.id)}
     /\ Cardinality(rows') = Cardinality(rows) - 1

\* C3 as stated: deleting an existing id is answered 200 and removes exactly
\* that row; afterwards no read returns the id and every delete or update of
\* it is answered 404.
C3_AsStated ==
  /\ []DeletedUnread
  /\ [][/\ DeleteRemoves
        /\ (req'.op \in {"delete", "update"} /\ req'.id \in deleted) =>
             res'.status = 404]_vars

\* C3 (amended): deleting an existing id is answered 200 and removes exactly
\* that row; afterwards no read returns the id, every delete of it is
\* answered 404, every update of it is answered 404 or, when the store
\* rejects the statement, 500, and neither changes a row.
C3_DeleteIsFinal ==
  /\ []DeletedUnread
  /\ [][/\ DeleteRemoves
        /\ (req'.op = "delete" /\ req'.id \in deleted) =>
             res'.status = 404 /\ rows' = rows
        /\ (req'.op = "update" /\ req'.id \in deleted) =>
             /\ res'.status \in {404, 500}
             /\ res'.status = 500 => logged' # ""
             /\ rows' = rows]_vars

\* an update of a deleted id after a later create
C3_Witness ==
  /\ req.op = "update"
  /\ req.id \in deleted
  /\ res.status = 404
  /\ rows # {}

(***************************************************************************)
(* C4                                                                      *)
(***************************************************************************)
\* C4: read-all returns every stored row exactly once and nothing else, a
\* row with a later date before one with an earlier date and, within a date,
\* a row with a higher id before one with a lower id.
C4_ReadAllOrdered ==
  req.op = "readAll" =>
    /\ res.status = 200
    /\ Len(res.body) = Cardinality(rows)
    /\ Elems(res.body) = rows
    /\ \A i, j \in 1..Len(res.body) :
         i < j =>
           \/ res.body[i].date[1] > res.body[j].date[1]
           \/ /\ res.body[i].date[1] = res.body[j].date[1]
              /\ res.body[i].id > res.body[j].id

\* three rows, the earliest-dated inserted between two of the later date
C4_Witness ==
  /\ req.op = "readAll"
  /\ Len(res.body) = 3
  /\ <<res.body[1].id, res.body[2].id, res.body[3].id>> = <<3, 1, 2>>
  /\ res.body[1].date = res.body[2].date
  /\ res.body[2].date # res.body[3].date

(***************************************************************************)
(* C5                                                                      *)
(***************************************************************************)
\* C5: personal-bests returns exactly one row for each exercise that has a
\* row with a weight and none for any other exercise; no other weighted row
\* of that exercise has a higher weight, or the same weight and a later date,
\* or the same weight and date and a higher id.
C5_BestsPerExercise ==
  req.op = "bests" =>
    /\ res.status = 200
    /\ Len(res.body) = Cardinality(Elems(res.body))
    /\ Elems(res.body) \subseteq {r \in rows : r.weight_kg # NULL}
    /\ \A r \in rows :
         r.weight_kg # NULL =>
           Cardinality({b \in Elems(res.body) : b.exercise = r.exercise}) = 1
    /\ \A b \in Elems(res.body) :
         \A o \in rows :
           (o.exercise = b.exercise /\ o.weight_kg # NULL /\ o # b) =>
             /\ o.weight_kg[1] <= b.weight_kg[1]
             /\ o.weight_kg[1] = b.weight_kg[1] => o.date[1] <= b.date[1]
             /\ (o.weight_kg[1] = b.weight_kg[1] /\ o.date[1] = b.date[1]) => o.id < b.id

\* two exercises; the best of one is decided by the date among equal weights
C5_Witness ==
  /\ req.op = "bests"
  /\ Len(res.body) = 2
  /\ Cardinality(rows) = 3
  /\ \E b \in Elems(res.body) :
       \E o \in rows :
         /\ o.exercise = b.exercise
         /\ o.weight_kg = b.weight_kg
         /\ o.date[1] < b.date[1]
         /\ o.id > b.id

(***************************************************************************)
(* C6                                                                      *)
(***************************************************************************)
\* C6: exercise-history answers 200 with exactly the rows whose exercise is
\* the name, case-sensitively, and whose weight is set, heaviest first, then
\* latest date, then highest id; the result is empty when there is no such
\* row, and its first element is the row personal-bests returns for the name.
C6_HistoryOrdered ==
  req.op = "history" =>
    /\ res.status = 200
    /\ Len(res.body) = Cardinality(Elems(res.body))
    /\ Elems(res.body) = {r \in rows : r.exercise = Some(req.name) /\ r.weight_kg # NULL}
    /\ \A i, j \in 1..Len(res.body) :
         i < j =>
           \/ res.body[i].weight_kg[1] > res.body[j].weight_kg[1]
           \/ /\ res.body[i].weight_kg[1] = res.body[j].weight_kg[1]
              /\ res.body[i].date[1] > res.body[j].date[1]
           \/ /\ res.body[i].weight_kg[1] = res.body[j].weight_kg[1]
              /\ res.body[i].date[1] = res.body[j].date[1]
              /\ res.body[i].id > res.body[j].id
    /\ {b \in Elems(SelectBests(rows)) : b.exercise = Some(req.name)} =
         IF Len(res.body) = 0 THEN {} ELSE {res.body[1]}

\* two weighted rows of the name beside a row whose name differs only in case
C6_Witness ==
  /\ req.op = "history"
  /\ req.name = "Squat"
  /\ Len(res.body) = 2
  /\ res.body[1].weight_kg # res.body[2].weight_kg
  /\ res.body[1].id < res.body[2].id
  /\ \E r \in rows : r.exercise = Some("squat") /\ r.weight_kg # NULL

\* a name no row carries
C6_WitnessEmpty ==
  /\ req.op = "history"
  /\ req.name = "Bench"
  /\ res.status = 200
  /\ res.body = <<>>
  /\ rows # {}

(***************************************************************************)
(* C7                                                                      *)
(***************************************************************************)
\* the row a successful create returned, as read-all reads it back, and as
\* exercise-history reads it back when a weight was submitted
ReadBack(exact) ==
  (req.op = "create" /\ res.status = 201) =>
    LET b == req.body
        id == res.body[1].id
        all == SelectAll(rows)
        hist == SelectHistory(rows, b.exercise.s)
    IN  /\ Cardinality({i \in 1..Len(all) : all[i].id = id}) = 1
        /\ \A i \in 1..Len(all) : all[i].id = id =>
               IF exact THEN Carries(all[i], b) ELSE CarriesRounded(all[i], b)
        /\ Present(b.weight_kg) =>
             /\ Cardinality({i \in 1..Len(hist) : hist[i].id = id}) = 1
             /\ \A i \in 1..Len(hist) : hist[i].id = id =>
                    IF exact THEN Carries(hist[i], b) ELSE CarriesRounded(hist[i], b)

C8_NeverCleared ==
  [][\A old \in rows : \A new \in rows' :
       new.id = old.id =>
         /\ old.date # NULL => new.date # NULL
         /\ old.exercise # NULL => new.exercise # NULL
         /\ old.weight_kg # NULL => new.weight_kg # NULL
         /\ old.reps # NULL => new.reps # NULL
         /\ old.note # NULL => new.note # NULL]_vars

\* an update that sends null for a set field and omits the others
C8_Witness ==
  /\ req.op = "update"
  /\ res.status = 200
  /\ req.body.weight_kg = Null
  /\ req.body.reps = Undef
  /\ res.body[1].weight_kg # NULL
  /\ res.body[1].reps # NULL

(***************************************************************************)
(* C9                                                                      *)
(***************************************************************************)
\* C9: every request issues at most one store call and gets one response;
\* the response is 500 exactly when the store call failed, it then carries
\* the store's message, and the rows are those before the request.
C9_StoreFailureFinal ==
  [][req'.op # "none" =>
      /\ res'.calls \in {0, 1}
      /\ res'.status \in {200, 201, 400, 404, 500}
      /\ (logged' # "") <=> (res'.status = 500)
      /\ res'.status = 500 =>
           /\ res'.calls = 1
           /\ res'.error = logged'
           /\ res'.body = <<>>
           /\ rows' = rows]_vars

\* the store failed a delete of an existing row
C9_Witness ==
  /\ req.op = "delete"
  /\ req.id \in Ids
  /\ res.status = 500
  /\ res.error = ErrDown

(***************************************************************************)
(* C10                                                                     *)
(***************************************************************************)
\* C10: every stored row has a date and an exercise that are non-null and
\* non-empty.
C10_RequiredFieldsKept ==
  \A r \in rows :
    /\ r.date # NULL
    /\ r.exercise # NULL
    /\ r.exercise # Some("")

====
